---- MODULE Spec2Model ----
(***************************************************************************)
(* Driver vigilance monitor (monitoring.js): the per-frame classification  *)
(* of eye closure, yawning and head turn with consecutive-frame counters,  *)
(* the set of active alerts with the alarm flag, and stopMonitoring.       *)
(*                                                                         *)
(* Numbers.  ear and mar are carried in thousandths (0.18 is 180).  The    *)
(* x coordinates of the landmarks read by calculateHeadPose are carried in *)
(* units of 0.0005, so that the 0.001 of line 131 is 2 units and a         *)
(* distance strictly between 0 and 0.001 exists.  A quotient of two        *)
(* distances is kept exact, as the pair <<numerator, denominator>>.        *)
(***************************************************************************)
EXTENDS Integers, FiniteSets, Sequences, TLC

\* ------------------------------------------------------------ constants
EAR_THRESHOLD_CLOSED == 180
EAR_THRESHOLD_PARTIALLY == 220
MAR_THRESHOLD_YAWN == 600
MAR_THRESHOLD_ALERT == 800
YAW_RATIO_LEFT == <<2, 5>>
YAW_RATIO_RIGHT == <<5, 2>>
CONSECUTIVE_FRAMES == 15
\* the 0.001 substituted for a zero rightDist, in coordinate units
SAFE_RIGHT_DIST == 2

\* the five alert types passed to updateAlert
EYES_CLOSED == "EYES CLOSED"
EYES_PARTIALLY_CLOSED == "EYES PARTIALLY CLOSED"
EXCESSIVE_YAWNING == "EXCESSIVE YAWNING"
YAWNING_DETECTED == "YAWNING DETECTED"
HEAD_NOT_FORWARD == "HEAD NOT FORWARD"
AlertTypes ==
  {EYES_CLOSED, EYES_PARTIALLY_CLOSED, EXCESSIVE_YAWNING, YAWNING_DETECTED,
   HEAD_NOT_FORWARD}

\* --------------------------------------------------------------- bounds
\* no counter is taken beyond MaxFrames
MaxFrames == 16
\* landmark x coordinates range over 0..MaxCoord
MaxCoord == 7
\* no more than MaxListeners loadeddata listeners are added to the video
MaxListeners == 3
\* no more than MaxPending + 1 animation-frame callbacks are pending at once
MaxPending == 2

\* ---------------------------------------------------------------- state
VARIABLES
  faceLandmarker,            \* TRUE once the model is loaded
  newVideoTime,              \* TRUE iff lastVideoTime !== video.currentTime
  eyeClosedFrames,
  eyePartiallyClosedFrames,
  yawnFrames,
  headTurnedFrames,
  isAlertPlaying,
  currentAlerts,
  eyeStatus,                 \* text of #eye-status
  yawnStatus,                \* text of #yawn-status
  headStatus,                \* text of #head-status
  driverStatus,              \* text of #driver-status
  landmarks,                 \* the landmarks given to calculateHeadPose
  headPose,                  \* what calculateHeadPose returned for them
  hist,                      \* history of the frames since the last reset
  webcamStream,              \* TRUE iff webcamStream is a stream (not null)
  srcObject,                 \* TRUE iff video.srcObject is a stream
  loadPending,               \* the stream's loadeddata event is still to come
  listeners,                 \* number of loadeddata listeners on the video
  starting,                  \* startMonitoring calls waiting at an await
  animationFrameId,          \* "null", or the id of a callback that is
                             \* "pending" or "spent" (run or cancelled)
  otherPending,              \* pending callbacks animationFrameId does not name
  startBtnDisabled,
  stopBtnDisabled,
  trace                      \* what the last handlers did (see TraceIdle)

progVars ==
  <<eyeClosedFrames, eyePartiallyClosedFrames, yawnFrames, headTurnedFrames,
    isAlertPlaying, currentAlerts, eyeStatus, yawnStatus, headStatus,
    driverStatus>>
poseVars == <<landmarks, headPose>>
loopVars ==
  <<webcamStream, srcObject, loadPending, listeners, starting,
    animationFrameId, otherPending, startBtnDisabled, stopBtnDisabled, trace>>
vars == <<faceLandmarker, newVideoTime, progVars, poseVars, hist, loopVars>>

\* ------------------------------------------------------ exact quotients
RatLess(p, q) == p[1] * q[2] < q[1] * p[2]
RatEq(p, q) == p[1] * q[2] = q[1] * p[2]

Abs(x) == IF x < 0 THEN -x ELSE x
Max(a, b) == IF a >= b THEN a ELSE b

\* ------------------------------------------------------------ head pose
Landmarks == [noseTip : 0..MaxCoord, leftCheek : 0..MaxCoord, rightCheek : 0..MaxCoord]
NoLandmarks == [noseTip |-> -1, leftCheek |-> -1, rightCheek |-> -1]
NoPose == [yawRatio |-> <<-1, 1>>, pitch |-> -1, roll |-> -1]

leftDistOf(lm) == Abs(lm.noseTip - lm.leftCheek)
rightDistOf(lm) == Abs(lm.rightCheek - lm.noseTip)

\* mutant: every rightDist below 0.001 is replaced, not only 0
calculateHeadPose_Floor(lm) ==
  LET leftDist == leftDistOf(lm)
      rightDist == rightDistOf(lm)
      safeRightDist == Max(rightDist, SAFE_RIGHT_DIST)
  IN  [yawRatio |-> <<leftDist, safeRightDist>>, pitch |-> 0, roll |-> 0]

calculateHeadPose(lm) ==
  LET leftDist == leftDistOf(lm)
      rightDist == rightDistOf(lm)
      safeRightDist == IF rightDist = 0 THEN SAFE_RIGHT_DIST ELSE rightDist
  IN  [yawRatio |-> <<leftDist, safeRightDist>>, pitch |-> 0, roll |-> 0]

\* ------------------------------------------------------------ the frames
\* What detectForVideo and the feature functions yield for one video frame:
\* face is FALSE when no face was detected; ear and mar are the values of
\* calculateEAR and calculateMAR, lm the landmarks read by calculateHeadPose,
\* count the length of results.faceLandmarks[0].
EarSamples == {100, 180, 220}
MarSamples == {600, 800, 850}
HeadSamples ==
  { [noseTip |-> 2, leftCheek |-> 0, rightCheek |-> 7],    \* ratio 0.4
    [noseTip |-> 5, leftCheek |-> 0, rightCheek |-> 7],    \* ratio 2.5
    [noseTip |-> 1, leftCheek |-> 0, rightCheek |-> 7],    \* ratio 1/6
    [noseTip |-> 6, leftCheek |-> 0, rightCheek |-> 7] }   \* ratio 6
FaceFrames ==
  [face : {TRUE}, ear : EarSamples, mar : MarSamples, lm : HeadSamples,
   count : {468}]
NoFace == [face |-> FALSE, ear |-> 0, mar |-> 0, lm |-> NoLandmarks, count |-> 0]
Frames == FaceFrames \cup {NoFace}

\* --------------------------------------------- the state predictWebcam works on
\* alertSound lists the calls ("play", "pause") the running handler has made
\* on the audio element so far.
Cur ==
  [eyeClosedFrames |-> eyeClosedFrames,
   eyePartiallyClosedFrames |-> eyePartiallyClosedFrames,
   yawnFrames |-> yawnFrames,
   headTurnedFrames |-> headTurnedFrames,
   isAlertPlaying |-> isAlertPlaying,
   currentAlerts |-> currentAlerts,
   eyeStatus |-> eyeStatus,
   yawnStatus |-> yawnStatus,
   headStatus |-> headStatus,
   driverStatus |-> driverStatus,
   alertSound |-> << >>]

Becomes(s) ==
  /\ eyeClosedFrames' = s.eyeClosedFrames
  /\ eyePartiallyClosedFrames' = s.eyePartiallyClosedFrames
  /\ yawnFrames' = s.yawnFrames
  /\ headTurnedFrames' = s.headTurnedFrames
  /\ isAlertPlaying' = s.isAlertPlaying
  /\ currentAlerts' = s.currentAlerts
  /\ eyeStatus' = s.eyeStatus
  /\ yawnStatus' = s.yawnStatus
  /\ headStatus' = s.headStatus
  /\ driverStatus' = s.driverStatus

\* ---------------------------------------------------------- updateAlert
\* mutant: an inactive type is not taken out of the set
updateAlert_NeverDeletes(s, type, isActive) ==
  LET alerts == IF isActive THEN s.currentAlerts \cup {type}
                            ELSE s.currentAlerts
      playing == IF Cardinality(alerts) > 0
                 THEN (IF ~s.isAlertPlaying THEN TRUE ELSE s.isAlertPlaying)
                 ELSE (IF s.isAlertPlaying THEN FALSE ELSE s.isAlertPlaying)
      sound == IF Cardinality(alerts) > 0
               THEN (IF ~s.isAlertPlaying THEN Append(s.alertSound, "play")
                                          ELSE s.alertSound)
               ELSE (IF s.isAlertPlaying THEN Append(s.alertSound, "pause")
                                         ELSE s.alertSound)
  IN  [s EXCEPT !.currentAlerts = alerts, !.isAlertPlaying = playing,
                !.alertSound = sound]

\* mutant: play() is called whenever the set is non-empty, without looking
\* at isAlertPlaying
updateAlert_AlwaysPlays(s, type, isActive) ==
  LET alerts == IF isActive THEN s.currentAlerts \cup {type}
                            ELSE s.currentAlerts \ {type}
      playing == Cardinality(alerts) > 0
      sound == IF Cardinality(alerts) > 0
               THEN Append(s.alertSound, "play")
               ELSE (IF s.isAlertPlaying THEN Append(s.alertSound, "pause")
                                         ELSE s.alertSound)
  IN  [s EXCEPT !.currentAlerts = alerts, !.isAlertPlaying = playing,
                !.alertSound = sound]

updateAlert(s, type, isActive) ==
  LET alerts == IF isActive THEN s.currentAlerts \cup {type}
                            ELSE s.currentAlerts \ {type}
      playing == IF Cardinality(alerts) > 0
                 THEN (IF ~s.isAlertPlaying THEN TRUE ELSE s.isAlertPlaying)
                 ELSE (IF s.isAlertPlaying THEN FALSE ELSE s.isAlertPlaying)
      sound == IF Cardinality(alerts) > 0
               THEN (IF ~s.isAlertPlaying THEN Append(s.alertSound, "play")
                                          ELSE s.alertSound)
               ELSE (IF s.isAlertPlaying THEN Append(s.alertSound, "pause")
                                         ELSE s.alertSound)
  IN  [s EXCEPT !.currentAlerts = alerts, !.isAlertPlaying = playing,
                !.alertSound = sound]

\* ------------------------------------------- the sections of predictWebcam
\* mutant: the closed-eye alert needs more than CONSECUTIVE_FRAMES frames
EyeStatusDetection_LateTrigger(ear, s) ==
  IF ear < EAR_THRESHOLD_CLOSED THEN
    LET s1 == [s EXCEPT !.eyeClosedFrames = @ + 1,
                        !.eyePartiallyClosedFrames = 0]
    IN  IF s1.eyeClosedFrames > CONSECUTIVE_FRAMES
        THEN updateAlert([s1 EXCEPT !.eyeStatus = "CLOSED"], EYES_CLOSED, TRUE)
        ELSE s1
  ELSE IF ear < EAR_THRESHOLD_PARTIALLY THEN
    LET s1 == [s EXCEPT !.eyePartiallyClosedFrames = @ + 1,
                        !.eyeClosedFrames = 0]
    IN  IF s1.eyePartiallyClosedFrames >= CONSECUTIVE_FRAMES
        THEN updateAlert([s1 EXCEPT !.eyeStatus = "PARTIALLY_CLOSED"],
                         EYES_PARTIALLY_CLOSED, TRUE)
        ELSE s1
  ELSE
    LET s1 == [s EXCEPT !.eyeClosedFrames = 0,
                        !.eyePartiallyClosedFrames = 0,
                        !.eyeStatus = "OPEN"]
    IN  updateAlert(updateAlert(s1, EYES_CLOSED, FALSE),
                    EYES_PARTIALLY_CLOSED, FALSE)

\* mutant: the partially-closed branch leaves eyeClosedFrames as it is
EyeStatusDetection_KeepsClosedCount(ear, s) ==
  IF ear < EAR_THRESHOLD_CLOSED THEN
    LET s1 == [s EXCEPT !.eyeClosedFrames = @ + 1,
                        !.eyePartiallyClosedFrames = 0]
    IN  IF s1.eyeClosedFrames >= CONSECUTIVE_FRAMES
        THEN updateAlert([s1 EXCEPT !.eyeStatus = "CLOSED"], EYES_CLOSED, TRUE)
        ELSE s1
  ELSE IF ear < EAR_THRESHOLD_PARTIALLY THEN
    LET s1 == [s EXCEPT !.eyePartiallyClosedFrames = @ + 1]
    IN  IF s1.eyePartiallyClosedFrames >= CONSECUTIVE_FRAMES
        THEN updateAlert([s1 EXCEPT !.eyeStatus = "PARTIALLY_CLOSED"],
                         EYES_PARTIALLY_CLOSED, TRUE)
        ELSE s1
  ELSE
    LET s1 == [s EXCEPT !.eyeClosedFrames = 0,
                        !.eyePartiallyClosedFrames = 0,
                        !.eyeStatus = "OPEN"]
    IN  updateAlert(updateAlert(s1, EYES_CLOSED, FALSE),
                    EYES_PARTIALLY_CLOSED, FALSE)

\* mutant: ear = 0.18 already counts as closed
EyeStatusDetection_ClosedAtThreshold(ear, s) ==
  IF ear <= EAR_THRESHOLD_CLOSED THEN
    LET s1 == [s EXCEPT !.eyeClosedFrames = @ + 1,
                        !.eyePartiallyClosedFrames = 0]
    IN  IF s1.eyeClosedFrames >= CONSECUTIVE_FRAMES
        THEN updateAlert([s1 EXCEPT !.eyeStatus = "CLOSED"], EYES_CLOSED, TRUE)
        ELSE s1
  ELSE IF ear < EAR_THRESHOLD_PARTIALLY THEN
    LET s1 == [s EXCEPT !.eyePartiallyClosedFrames = @ + 1,
                        !.eyeClosedFrames = 0]
    IN  IF s1.eyePartiallyClosedFrames >= CONSECUTIVE_FRAMES
        THEN updateAlert([s1 EXCEPT !.eyeStatus = "PARTIALLY_CLOSED"],
                         EYES_PARTIALLY_CLOSED, TRUE)
        ELSE s1
  ELSE
    LET s1 == [s EXCEPT !.eyeClosedFrames = 0,
                        !.eyePartiallyClosedFrames = 0,
                        !.eyeStatus = "OPEN"]
    IN  updateAlert(updateAlert(s1, EYES_CLOSED, FALSE),
                    EYES_PARTIALLY_CLOSED, FALSE)

EyeStatusDetection(ear, s) ==
  IF ear < EAR_THRESHOLD_CLOSED THEN
    LET s1 == [s EXCEPT !.eyeClosedFrames = @ + 1,
                        !.eyePartiallyClosedFrames = 0]
    IN  IF s1.eyeClosedFrames >= CONSECUTIVE_FRAMES
        THEN updateAlert([s1 EXCEPT !.eyeStatus = "CLOSED"], EYES_CLOSED, TRUE)
        ELSE s1
  ELSE IF ear < EAR_THRESHOLD_PARTIALLY THEN
    LET s1 == [s EXCEPT !.eyePartiallyClosedFrames = @ + 1,
                        !.eyeClosedFrames = 0]
    IN  IF s1.eyePartiallyClosedFrames >= CONSECUTIVE_FRAMES
        THEN updateAlert([s1 EXCEPT !.eyeStatus = "PARTIALLY_CLOSED"],
                         EYES_PARTIALLY_CLOSED, TRUE)
        ELSE s1
  ELSE
    LET s1 == [s EXCEPT !.eyeClosedFrames = 0,
                        !.eyePartiallyClosedFrames = 0,
                        !.eyeStatus = "OPEN"]
    IN  updateAlert(updateAlert(s1, EYES_CLOSED, FALSE),
                    EYES_PARTIALLY_CLOSED, FALSE)

\* mutant: mar = 0.8 already counts as excessive
YawningDetection_SeverityAtThreshold(mar, s) ==
  IF mar > MAR_THRESHOLD_YAWN THEN
    LET s1 == [s EXCEPT !.yawnFrames = @ + 1]
    IN  IF s1.yawnFrames >= CONSECUTIVE_FRAMES
        THEN LET s2 == [s1 EXCEPT !.yawnStatus = "YAWNING"]
             IN  IF mar >= MAR_THRESHOLD_ALERT
                 THEN updateAlert(s2, EXCESSIVE_YAWNING, TRUE)
                 ELSE updateAlert(s2, YAWNING_DETECTED, TRUE)
        ELSE s1
  ELSE
    LET s1 == [s EXCEPT !.yawnFrames = 0, !.yawnStatus = "NORMAL"]
    IN  updateAlert(updateAlert(s1, YAWNING_DETECTED, FALSE),
                    EXCESSIVE_YAWNING, FALSE)

YawningDetection(mar, s) ==
  IF mar > MAR_THRESHOLD_YAWN THEN
    LET s1 == [s EXCEPT !.yawnFrames = @ + 1]
    IN  IF s1.yawnFrames >= CONSECUTIVE_FRAMES
        THEN LET s2 == [s1 EXCEPT !.yawnStatus = "YAWNING"]
             IN  IF mar > MAR_THRESHOLD_ALERT
                 THEN updateAlert(s2, EXCESSIVE_YAWNING, TRUE)
                 ELSE updateAlert(s2, YAWNING_DETECTED, TRUE)
        ELSE s1
  ELSE
    LET s1 == [s EXCEPT !.yawnFrames = 0, !.yawnStatus = "NORMAL"]
    IN  updateAlert(updateAlert(s1, YAWNING_DETECTED, FALSE),
                    EXCESSIVE_YAWNING, FALSE)

\* mutant: the label turns to TURNED on the first frame with the head turned
HeadPostureDetection_NoDebounce(pose, s) ==
  LET isLookingLeft == RatLess(pose.yawRatio, YAW_RATIO_LEFT)
      isLookingRight == RatLess(YAW_RATIO_RIGHT, pose.yawRatio)
      headTurnAlert == isLookingLeft \/ isLookingRight
  IN  IF headTurnAlert THEN
        LET s1 == [s EXCEPT !.headTurnedFrames = @ + 1, !.headStatus = "TURNED"]
        IN  IF s1.headTurnedFrames >= CONSECUTIVE_FRAMES
            THEN updateAlert(s1, HEAD_NOT_FORWARD, TRUE)
            ELSE s1
      ELSE
        LET s1 == [s EXCEPT !.headTurnedFrames = 0, !.headStatus = "FORWARD"]
        IN  updateAlert(s1, HEAD_NOT_FORWARD, FALSE)

\* mutant: a head facing forward empties currentAlerts
HeadPostureDetection_ClearsAll(pose, s) ==
  LET isLookingLeft == RatLess(pose.yawRatio, YAW_RATIO_LEFT)
      isLookingRight == RatLess(YAW_RATIO_RIGHT, pose.yawRatio)
      headTurnAlert == isLookingLeft \/ isLookingRight
  IN  IF headTurnAlert THEN
        LET s1 == [s EXCEPT !.headTurnedFrames = @ + 1]
        IN  IF s1.headTurnedFrames >= CONSECUTIVE_FRAMES
            THEN updateAlert([s1 EXCEPT !.headStatus = "TURNED"],
                             HEAD_NOT_FORWARD, TRUE)
            ELSE s1
      ELSE
        LET s1 == [s EXCEPT !.headTurnedFrames = 0, !.headStatus = "FORWARD",
                            !.currentAlerts = {HEAD_NOT_FORWARD}]
        IN  updateAlert(s1, HEAD_NOT_FORWARD, FALSE)

HeadPostureDetection(pose, s) ==
  LET isLookingLeft == RatLess(pose.yawRatio, YAW_RATIO_LEFT)
      isLookingRight == RatLess(YAW_RATIO_RIGHT, pose.yawRatio)
      headTurnAlert == isLookingLeft \/ isLookingRight
  IN  IF headTurnAlert THEN
        LET s1 == [s EXCEPT !.headTurnedFrames = @ + 1]
        IN  IF s1.headTurnedFrames >= CONSECUTIVE_FRAMES
            THEN updateAlert([s1 EXCEPT !.headStatus = "TURNED"],
                             HEAD_NOT_FORWARD, TRUE)
            ELSE s1
      ELSE
        LET s1 == [s EXCEPT !.headTurnedFrames = 0, !.headStatus = "FORWARD"]
        IN  updateAlert(s1, HEAD_NOT_FORWARD, FALSE)

\* mutant: only the eye alerts make the driver DROWSY
OverallDriverStatus_EyesOnly(s) ==
  IF Cardinality(s.currentAlerts \cap {EYES_CLOSED, EYES_PARTIALLY_CLOSED}) > 0
  THEN [s EXCEPT !.driverStatus = "DROWSY"]
  ELSE [s EXCEPT !.driverStatus = "SAFE"]

OverallDriverStatus(s) ==
  IF Cardinality(s.currentAlerts) > 0
  THEN [s EXCEPT !.driverStatus = "DROWSY"]
  ELSE [s EXCEPT !.driverStatus = "SAFE"]

\* the block of predictWebcam run for a frame with a detected face
ProcessLandmarks(f, s) ==
  LET ear == f.ear
      mar == f.mar
      pose == calculateHeadPose(f.lm)
      s0 == [s EXCEPT !.eyeStatus = "OPEN", !.yawnStatus = "NORMAL",
                      !.headStatus = "FORWARD", !.driverStatus = "SAFE"]
      s1 == EyeStatusDetection(ear, s0)
      s2 == YawningDetection(mar, s1)
      s3 == HeadPostureDetection(pose, s2)
  IN  OverallDriverStatus(s3)

\* ------------------------------------------------------- stopMonitoring
\* mutant: currentAlerts.clear() is left out
stopMonitoringOf_KeepsAlerts(s) ==
  [s EXCEPT !.isAlertPlaying = IF s.isAlertPlaying THEN FALSE ELSE s.isAlertPlaying,
            !.alertSound = IF s.isAlertPlaying THEN Append(@, "pause") ELSE @,
            !.eyeClosedFrames = 0,
            !.eyePartiallyClosedFrames = 0,
            !.yawnFrames = 0,
            !.headTurnedFrames = 0,
            !.driverStatus = "STANDBY",
            !.eyeStatus = "Unknown",
            !.yawnStatus = "Unknown",
            !.headStatus = "Unknown"]

stopMonitoringOf(s) ==
  [s EXCEPT !.isAlertPlaying = IF s.isAlertPlaying THEN FALSE ELSE s.isAlertPlaying,
            !.alertSound = IF s.isAlertPlaying THEN Append(@, "pause") ELSE @,
            !.currentAlerts = {},
            !.eyeClosedFrames = 0,
            !.eyePartiallyClosedFrames = 0,
            !.yawnFrames = 0,
            !.headTurnedFrames = 0,
            !.driverStatus = "STANDBY",
            !.eyeStatus = "Unknown",
            !.yawnStatus = "Unknown",
            !.headStatus = "Unknown"]

\* ------------------------------------------------------------- history
\* hist records, for the frames since the last reset: n, the number of
\* frames with a detected face; closedRun, every one of them had
\* ear < 0.18; highRun, every one had mar > 0.8; midRun, every one had
\* 0.6 < mar <= 0.8; cleared, the last frame had ear >= 0.22 and came right
\* after a closedRun of CONSECUTIVE_FRAMES frames; skipped, a frame without
\* a face came after the first and before the CONSECUTIVE_FRAMES-th; stops, the number of
\* stopMonitoring calls just made in a row (at most 2); afterAlarm, the
\* alarm was playing when the first of them was made; quiet, the last
\* operation was a frame with a face on which no signal qualified
\* (ear >= 0.22, mar <= 0.6, 0.4 <= yawRatio <= 2.5).  Once no run is left
\* to follow, these fields are those of HistDead.
\* Kept whatever the runs: uses, the number of detections run on the present
\* video frame (at most 2); closedStreak and partialStreak, the number of
\* frames with a face, up to the last one, that had ear < 0.18 in a row,
\* resp. 0.18 <= ear < 0.22 in a row (at most MaxFrames + 1); seq, how far
\* the frames since the reset follow the sequence of SeqClosed frames with
\* ear < 0.18, one with 0.18 <= ear < 0.22 and SeqClosed more with
\* ear < 0.18 (-1 once they do not); interrupted, the last operation was a
\* frame on which alertSound was paused and that left currentAlerts
\* non-empty; sound, the calls the last operation made on alertSound, kept
\* while a run is followed.
SeqClosed == CONSECUTIVE_FRAMES - 1
HistFresh ==
  [n |-> 0, closedRun |-> TRUE, highRun |-> TRUE, midRun |-> TRUE,
   cleared |-> FALSE, skipped |-> FALSE, stops |-> 0, afterAlarm |-> FALSE,
   quiet |-> FALSE, uses |-> 0, closedStreak |-> 0, partialStreak |-> 0,
   seq |-> 0, interrupted |-> FALSE, sound |-> << >>]
HistDead ==
  [n |-> 0, closedRun |-> FALSE, highRun |-> FALSE, midRun |-> FALSE,
   cleared |-> FALSE, skipped |-> FALSE, stops |-> 0, afterAlarm |-> FALSE,
   quiet |-> FALSE, uses |-> 0, closedStreak |-> 0, partialStreak |-> 0,
   seq |-> -1, interrupted |-> FALSE, sound |-> << >>]

Min(a, b) == IF a <= b THEN a ELSE b

\* whether a frame with this ear comes next in the sequence seq follows
SeqExpects(seq, ear) ==
  /\ seq >= 0
  /\ seq < 2 * SeqClosed + 1
  /\ IF seq = SeqClosed
     THEN EAR_THRESHOLD_CLOSED <= ear /\ ear < EAR_THRESHOLD_PARTIALLY
     ELSE ear < EAR_THRESHOLD_CLOSED

NoSignalQualifies(f) ==
  /\ f.ear >= EAR_THRESHOLD_PARTIALLY
  /\ f.mar <= MAR_THRESHOLD_YAWN
  /\ ~RatLess(calculateHeadPose(f.lm).yawRatio, YAW_RATIO_LEFT)
  /\ ~RatLess(YAW_RATIO_RIGHT, calculateHeadPose(f.lm).yawRatio)

HistFace(h, f, s) ==
  LET c == h.closedRun /\ f.ear < EAR_THRESHOLD_CLOSED
      hi == h.highRun /\ f.mar > MAR_THRESHOLD_ALERT
      mi == h.midRun /\ f.mar > MAR_THRESHOLD_YAWN /\ f.mar <= MAR_THRESHOLD_ALERT
      cl == h.closedRun /\ h.n = CONSECUTIVE_FRAMES /\ f.ear >= EAR_THRESHOLD_PARTIALLY
      alive == (c \/ hi \/ mi \/ cl) /\ h.n <= MaxFrames
      runs == IF alive
              THEN [HistDead EXCEPT !.n = h.n + 1, !.closedRun = c,
                                    !.highRun = hi, !.midRun = mi,
                                    !.cleared = cl, !.skipped = h.skipped,
                                    !.sound = s.alertSound]
              ELSE HistDead
  IN  [runs EXCEPT
         !.quiet = NoSignalQualifies(f),
         !.uses = Min(h.uses + 1, 2),
         !.closedStreak = IF f.ear < EAR_THRESHOLD_CLOSED
                          THEN Min(h.closedStreak + 1, MaxFrames + 1) ELSE 0,
         !.partialStreak = IF EAR_THRESHOLD_CLOSED <= f.ear
                              /\ f.ear < EAR_THRESHOLD_PARTIALLY
                           THEN Min(h.partialStreak + 1, MaxFrames + 1) ELSE 0,
         !.seq = IF SeqExpects(h.seq, f.ear) THEN h.seq + 1 ELSE -1,
         !.interrupted = (\E i \in DOMAIN s.alertSound : s.alertSound[i] = "pause")
                         /\ s.currentAlerts # {}]

HistNoFace(h) ==
  LET runs == IF h.closedRun \/ h.highRun \/ h.midRun
              THEN [h EXCEPT !.skipped = @ \/ (0 < h.n /\ h.n < CONSECUTIVE_FRAMES),
                             !.cleared = FALSE, !.stops = 0, !.afterAlarm = FALSE]
              ELSE HistDead
  IN  [runs EXCEPT !.quiet = FALSE,
                   !.uses = Min(h.uses + 1, 2),
                   !.closedStreak = h.closedStreak,
                   !.partialStreak = h.partialStreak,
                   !.seq = -1,
                   !.interrupted = FALSE,
                   !.sound = << >>]

HistStop(h, playing) ==
  [HistFresh EXCEPT !.stops = IF h.stops >= 1 THEN 2 ELSE 1,
                    !.afterAlarm = IF h.stops >= 1 THEN h.afterAlarm ELSE playing]

\* ----------------------------------------------------------------- Init
\* trace records: outcome, how the last call of predictWebcam ended ("none"
\* before any call and after a click, "skipped" when no detection was run,
\* "noface", "threw" when it ended by an exception, "processed"); count, the
\* number of landmarks of the face the last detection found (-1 if none);
\* stopped, stopMonitoring has completed and the start button has not been
\* clicked since.
TraceIdle ==
  [outcome |-> "none", count |-> -1, stopped |-> FALSE]

\* no stream, no listener, no callback; the buttons as stopMonitoring
\* leaves them
LoopIdle ==
  /\ webcamStream = FALSE
  /\ srcObject = FALSE
  /\ loadPending = FALSE
  /\ listeners = 0
  /\ starting = 0
  /\ animationFrameId = "null"
  /\ otherPending = 0
  /\ startBtnDisabled = FALSE
  /\ stopBtnDisabled = TRUE
  /\ trace = TraceIdle

Init ==
  /\ faceLandmarker = FALSE
  /\ newVideoTime = TRUE
  /\ eyeClosedFrames = 0
  /\ eyePartiallyClosedFrames = 0
  /\ yawnFrames = 0
  /\ headTurnedFrames = 0
  /\ isAlertPlaying = FALSE
  /\ currentAlerts = {}
  /\ eyeStatus = "Unknown"
  /\ yawnStatus = "Unknown"
  /\ headStatus = "Unknown"
  /\ driverStatus = "STANDBY"
  /\ landmarks = NoLandmarks
  /\ headPose = NoPose
  /\ hist = HistFresh
  /\ LoopIdle

\* -------------------------------------------------------------- actions
\* the model is loaded (startMonitoring awaits it before anything else)
initializeFaceLandmarker ==
  /\ ~faceLandmarker
  /\ faceLandmarker' = TRUE
  /\ UNCHANGED <<newVideoTime, progVars, poseVars, hist, loopVars>>

\* the video element moves on to another frame
videoTimeUpdate ==
  /\ newVideoTime' = TRUE
  /\ hist' = [hist EXCEPT !.uses = 0]
  /\ UNCHANGED <<faceLandmarker, progVars, poseVars, loopVars>>

WithinBounds(s) ==
  /\ s.eyeClosedFrames <= MaxFrames
  /\ s.eyePartiallyClosedFrames <= MaxFrames
  /\ s.yawnFrames <= MaxFrames
  /\ s.headTurnedFrames <= MaxFrames

\* a call of predictWebcam that runs no detection: the model is not loaded,
\* or video.currentTime is still lastVideoTime
predictWebcamSkip ==
  /\ ~faceLandmarker \/ ~newVideoTime
  /\ UNCHANGED vars

\* mutant: a frame without a face counts as every condition having cleared
predictWebcam_NoFaceResets(f) ==
  /\ faceLandmarker
  /\ newVideoTime
  /\ newVideoTime' = FALSE
  /\ UNCHANGED <<faceLandmarker, poseVars, loopVars>>
  /\ IF f.face
     THEN \E s \in {ProcessLandmarks(f, Cur)} :
            /\ WithinBounds(s)
            /\ Becomes(s)
            /\ hist' = HistFace(hist, f, s)
     ELSE /\ \E s \in {[Cur EXCEPT !.eyeClosedFrames = 0,
                                   !.eyePartiallyClosedFrames = 0,
                                   !.yawnFrames = 0,
                                   !.headTurnedFrames = 0]} : Becomes(s)
          /\ hist' = HistNoFace(hist)

\* mutant: lastVideoTime is not set to video.currentTime
predictWebcam_KeepsLastVideoTime(f) ==
  /\ faceLandmarker
  /\ newVideoTime
  /\ UNCHANGED <<faceLandmarker, newVideoTime, poseVars, loopVars>>
  /\ IF f.face
     THEN \E s \in {ProcessLandmarks(f, Cur)} :
            /\ WithinBounds(s)
            /\ Becomes(s)
            /\ hist' = HistFace(hist, f, s)
     ELSE /\ UNCHANGED progVars
          /\ hist' = HistNoFace(hist)

\* the landmarks calculateEAR, calculateMAR and calculateHeadPose read; a
\* face with fewer landmarks than one of these indices makes the function
\* that reads it throw a TypeError
RequiredIndices ==
  {160, 144, 158, 153, 33, 133, 385, 380, 387, 373, 362, 263,
   13, 14, 78, 308, 1, 234, 454}
MissingLandmark(f) == \E i \in RequiredIndices : i >= f.count

\* mutant: the head pose is computed after the eye section has run, so a
\* face without landmark 454 throws once the eye counters are updated
Detection_ThrowsLate(f) ==
  /\ newVideoTime' = FALSE
  /\ IF f.face /\ MissingLandmark(f)
     THEN /\ \E s \in {IF f.count > 387 THEN EyeStatusDetection(f.ear, Cur)
                                         ELSE Cur} :
               WithinBounds(s) /\ Becomes(s)
          /\ hist' = HistNoFace(hist)
     ELSE IF f.face
     THEN \E s \in {ProcessLandmarks(f, Cur)} :
            /\ WithinBounds(s)
            /\ Becomes(s)
            /\ hist' = HistFace(hist, f, s)
     ELSE /\ UNCHANGED progVars
          /\ hist' = HistNoFace(hist)

\* the block of predictWebcam run when video.currentTime has moved, the
\* detector yielding f: the three features are computed first, and a
\* TypeError thrown there ends the call with nothing but lastVideoTime set
Detection(f) ==
  /\ newVideoTime' = FALSE
  /\ IF f.face /\ MissingLandmark(f)
     THEN /\ UNCHANGED progVars
          /\ hist' = HistNoFace(hist)
     ELSE IF f.face
     THEN \E s \in {ProcessLandmarks(f, Cur)} :
            /\ WithinBounds(s)
            /\ Becomes(s)
            /\ hist' = HistFace(hist, f, s)
     ELSE /\ UNCHANGED progVars
          /\ hist' = HistNoFace(hist)

\* a call of predictWebcam that runs the detector, which yields f
predictWebcam(f) ==
  /\ faceLandmarker
  /\ newVideoTime
  /\ Detection(f)
  /\ UNCHANGED <<faceLandmarker, poseVars, loopVars>>

\* video.srcObject = null puts video.currentTime back to 0, which may or
\* may not differ from lastVideoTime
stopMonitoring ==
  /\ \E s \in {stopMonitoringOf(Cur)} : Becomes(s)
  /\ newVideoTime' \in (IF faceLandmarker THEN BOOLEAN ELSE {TRUE})
  /\ hist' = HistStop(hist, isAlertPlaying)
  /\ UNCHANGED <<faceLandmarker, poseVars, loopVars>>

Next ==
  \/ initializeFaceLandmarker
  \/ videoTimeUpdate
  \/ predictWebcamSkip
  \/ \E f \in Frames : predictWebcam(f)
  \/ stopMonitoring

Spec == Init /\ [][Next]_vars

\* ------------------------------------------- the buttons and the callbacks
\* The same handlers driven by the events of the page: clicks on the two
\* buttons, the promises startMonitoring awaits, loadeddata, and the
\* animation-frame callbacks predictWebcam asks for.  The frames are few:
\* eyes closed or open with 468 landmarks, eyes closed with 478, 400 or 300
\* landmarks, and no face.
LoopClosed ==
  [face |-> TRUE, ear |-> 100, mar |-> 600,
   lm |-> [noseTip |-> 2, leftCheek |-> 0, rightCheek |-> 7], count |-> 468]
LoopFrames ==
  { LoopClosed,
    [LoopClosed EXCEPT !.ear = 220],
    [LoopClosed EXCEPT !.count = 478],
    [LoopClosed EXCEPT !.count = 400],
    [LoopClosed EXCEPT !.count = 300],
    NoFace }

\* what the detector can yield: a face only from a video that has a stream
\* whose data is loaded
VideoFrames == IF srcObject /\ ~loadPending THEN LoopFrames ELSE {NoFace}

\* one call of predictWebcam with the model loaded: the state it leaves,
\* whether it ends by an exception, and what trace keeps of it
Threw(f) == newVideoTime /\ f.face /\ MissingLandmark(f)

predictWebcamCall(f) ==
  /\ faceLandmarker
  /\ newVideoTime \/ f = NoFace
  /\ IF newVideoTime
     THEN Detection(f)
     ELSE UNCHANGED <<newVideoTime, progVars, hist>>
  /\ trace' = [trace EXCEPT
                 !.outcome = IF ~newVideoTime THEN "skipped"
                             ELSE IF ~f.face THEN "noface"
                             ELSE IF MissingLandmark(f) THEN "threw"
                             ELSE "processed",
                 !.count = IF newVideoTime /\ f.face THEN f.count ELSE -1]

\* a click on the start button: startMonitoring up to its first await
startMonitoring ==
  /\ ~startBtnDisabled
  /\ listeners + starting < MaxListeners
  /\ starting' = starting + 1
  /\ startBtnDisabled' = IF ~faceLandmarker THEN TRUE ELSE startBtnDisabled
  /\ trace' = [TraceIdle EXCEPT !.stopped = FALSE]
  /\ UNCHANGED <<faceLandmarker, newVideoTime, progVars, poseVars, hist,
                 webcamStream, srcObject, loadPending, listeners,
                 animationFrameId, otherPending, stopBtnDisabled>>

\* initializeFaceLandmarker, awaited by a startMonitoring call, succeeds
modelLoaded ==
  /\ starting > 0
  /\ initializeFaceLandmarker

\* getUserMedia, awaited by a startMonitoring call, yields a stream: the
\* rest of the try block.  The new stream puts video.currentTime to 0.
getUserMediaResolved ==
  /\ starting > 0
  /\ faceLandmarker
  /\ starting' = starting - 1
  /\ webcamStream' = TRUE
  /\ srcObject' = TRUE
  /\ loadPending' = TRUE
  /\ listeners' = listeners + 1
  /\ startBtnDisabled' = TRUE
  /\ stopBtnDisabled' = FALSE
  /\ newVideoTime' \in BOOLEAN
  /\ UNCHANGED <<faceLandmarker, progVars, poseVars, hist,
                 animationFrameId, otherPending, trace>>

\* one of the awaited promises is rejected: the catch block
startMonitoringCatch ==
  /\ starting > 0
  /\ starting' = starting - 1
  /\ startBtnDisabled' = FALSE
  /\ UNCHANGED <<faceLandmarker, newVideoTime, progVars, poseVars, hist,
                 webcamStream, srcObject, loadPending, listeners,
                 animationFrameId, otherPending, stopBtnDisabled, trace>>

\* the stream's first frame is there: every listener added so far calls
\* predictWebcam, the first call runs the detection (yielding f), the
\* others find lastVideoTime up to date; each call that does not throw
\* asks for a callback and stores its id
loadeddata(f) ==
  /\ srcObject
  /\ loadPending
  /\ f \in LoopFrames
  /\ predictWebcamCall(f)
  /\ loadPending' = FALSE
  /\ LET asked == IF Threw(f) THEN listeners - 1 ELSE listeners
     IN  IF asked = 0
         THEN UNCHANGED <<animationFrameId, otherPending>>
         ELSE /\ animationFrameId' = "pending"
              /\ otherPending' = otherPending + (asked - 1)
                                  + (IF animationFrameId = "pending" THEN 1 ELSE 0)
              /\ otherPending' <= MaxPending
  /\ UNCHANGED <<faceLandmarker, poseVars, webcamStream, srcObject, listeners,
                 starting, startBtnDisabled, stopBtnDisabled>>

\* a pending callback runs predictWebcam: the one animationFrameId names
\* (named) or another one; unless the call throws it asks for the next
\* callback and stores its id
animationFrame(f, named) ==
  /\ IF named THEN animationFrameId = "pending" ELSE otherPending > 0
  /\ f \in VideoFrames
  /\ predictWebcamCall(f)
  /\ IF Threw(f)
     THEN /\ animationFrameId' = IF named THEN "spent" ELSE animationFrameId
          /\ otherPending' = IF named THEN otherPending ELSE otherPending - 1
     ELSE /\ animationFrameId' = "pending"
          /\ otherPending' = IF named THEN otherPending
                              ELSE otherPending - 1
                                   + (IF animationFrameId = "pending" THEN 1 ELSE 0)
  /\ UNCHANGED <<faceLandmarker, poseVars, webcamStream, srcObject, loadPending,
                 listeners, starting, startBtnDisabled, stopBtnDisabled>>

\* a click on the stop button: stopMonitoring, which cancels the callback
\* animationFrameId names and no other
stopBtnClick ==
  /\ ~stopBtnDisabled
  /\ animationFrameId' = "null"
  /\ webcamStream' = FALSE
  /\ srcObject' = FALSE
  /\ loadPending' = FALSE
  /\ \E s \in {stopMonitoringOf(Cur)} : Becomes(s)
  /\ newVideoTime' \in BOOLEAN
  /\ hist' = HistStop(hist, isAlertPlaying)
  /\ startBtnDisabled' = FALSE
  /\ stopBtnDisabled' = TRUE
  /\ trace' = [TraceIdle EXCEPT !.stopped = TRUE]
  /\ UNCHANGED <<faceLandmarker, poseVars, listeners, starting, otherPending>>

NextLoop ==
  \/ startMonitoring
  \/ modelLoaded
  \/ getUserMediaResolved
  \/ startMonitoringCatch
  \/ \E f \in LoopFrames : loadeddata(f)
  \/ \E f \in LoopFrames : \E named \in BOOLEAN : animationFrame(f, named)
  \/ videoTimeUpdate
  \/ stopBtnClick

SpecLoop == Init /\ [][NextLoop]_vars

\* ------------------------------------- calculateHeadPose on its own inputs
InitPose ==
  /\ faceLandmarker = FALSE
  /\ newVideoTime = TRUE
  /\ eyeClosedFrames = 0
  /\ eyePartiallyClosedFrames = 0
  /\ yawnFrames = 0
  /\ headTurnedFrames = 0
  /\ isAlertPlaying = FALSE
  /\ currentAlerts = {}
  /\ eyeStatus = "Unknown"
  /\ yawnStatus = "Unknown"
  /\ headStatus = "Unknown"
  /\ driverStatus = "STANDBY"
  /\ landmarks \in Landmarks
  /\ headPose = NoPose
  /\ hist = HistFresh
  /\ LoopIdle

ApplyHeadPose ==
  /\ headPose = NoPose
  /\ headPose' = calculateHeadPose(landmarks)
  /\ UNCHANGED <<faceLandmarker, newVideoTime, progVars, landmarks, hist, loopVars>>

NextPose == ApplyHeadPose

SpecPose == InitPose /\ [][NextPose]_vars

\* =============================================================== claims
AllCountersZero ==
  /\ eyeClosedFrames = 0
  /\ eyePartiallyClosedFrames = 0
  /\ yawnFrames = 0
  /\ headTurnedFrames = 0

\* C1: from the reset state, in a run of frames that all have a face and
\* ear < 0.18, the eye label is CLOSED and EYES CLOSED is active from the
\* 15th frame on and on no earlier frame; when the frame right after the
\* 15th has ear >= 0.22, that frame shows OPEN and EYES CLOSED is gone.
C1_ClosedRunTriggersThenClears ==
  /\ (hist.closedRun /\ ~hist.skipped /\ hist.n >= 1) =>
       /\ (eyeStatus = "CLOSED") <=> (hist.n >= CONSECUTIVE_FRAMES)
       /\ (EYES_CLOSED \in currentAlerts) <=> (hist.n >= CONSECUTIVE_FRAMES)
  /\ hist.cleared => (eyeStatus = "OPEN" /\ EYES_CLOSED \notin currentAlerts)

C1_Witness ==
  /\ hist.cleared
  /\ ~hist.skipped
  /\ hist.n = CONSECUTIVE_FRAMES + 1
  /\ eyeStatus = "OPEN"
  /\ EYES_CLOSED \notin currentAlerts

\* C2: a frame without a detected face leaves the four counters and the
\* alert set as they were; so in a run of ear < 0.18 frames from the reset
\* state, with frames without a face anywhere in between, EYES CLOSED is
\* active exactly from the 15th frame with a face.
C2_NoFaceFreezes ==
  /\ [](hist.closedRun /\ hist.n >= 1 =>
          ((EYES_CLOSED \in currentAlerts) <=> (hist.n >= CONSECUTIVE_FRAMES)))
  /\ [][predictWebcam(NoFace) =>
          UNCHANGED <<eyeClosedFrames, eyePartiallyClosedFrames, yawnFrames,
                      headTurnedFrames, currentAlerts>>]_vars

C2_Witness ==
  /\ hist.closedRun
  /\ hist.skipped
  /\ hist.n = CONSECUTIVE_FRAMES
  /\ eyeClosedFrames = CONSECUTIVE_FRAMES
  /\ EYES_CLOSED \in currentAlerts

\* C3: whenever a driver status computed from a frame is shown, it is DROWSY
\* exactly when the alert set is non-empty and SAFE exactly when it is empty.
C3_DrowsyIffAlerts ==
  driverStatus # "STANDBY" =>
    /\ (driverStatus = "DROWSY") <=> (currentAlerts # {})
    /\ (driverStatus = "SAFE") <=> (currentAlerts = {})

C3_Witness ==
  /\ driverStatus = "DROWSY"
  /\ Cardinality(currentAlerts) >= 2

\* C4: from the reset state, after 15 frames in a row with mar > 0.8
\* EXCESSIVE YAWNING is active and YAWNING DETECTED is not; after 15 frames
\* in a row with 0.6 < mar <= 0.8 YAWNING DETECTED is active and EXCESSIVE
\* YAWNING is not.
C4_YawnSeverity ==
  /\ (hist.highRun /\ hist.n >= CONSECUTIVE_FRAMES) =>
       (EXCESSIVE_YAWNING \in currentAlerts /\ YAWNING_DETECTED \notin currentAlerts)
  /\ (hist.midRun /\ hist.n >= CONSECUTIVE_FRAMES) =>
       (YAWNING_DETECTED \in currentAlerts /\ EXCESSIVE_YAWNING \notin currentAlerts)

C4_Witness ==
  /\ hist.midRun
  /\ hist.n = CONSECUTIVE_FRAMES
  /\ yawnFrames = CONSECUTIVE_FRAMES
  /\ YAWNING_DETECTED \in currentAlerts

\* C5: eyeClosedFrames and eyePartiallyClosedFrames are never both above 0.
C5_EyeCountersExclusive ==
  ~(eyeClosedFrames > 0 /\ eyePartiallyClosedFrames > 0)

C5_Witness ==
  /\ eyePartiallyClosedFrames = 1
  /\ eyeClosedFrames = 0
  /\ EYES_CLOSED \in currentAlerts

\* C6: each label shown is the alerting one exactly when its counter has
\* reached CONSECUTIVE_FRAMES, and after a processed frame it is otherwise
\* OPEN, NORMAL or FORWARD.
C6_LabelIffThreshold ==
  /\ (eyeStatus = "CLOSED") <=> (eyeClosedFrames >= CONSECUTIVE_FRAMES)
  /\ (eyeStatus = "PARTIALLY_CLOSED") <=> (eyePartiallyClosedFrames >= CONSECUTIVE_FRAMES)
  /\ (yawnStatus = "YAWNING") <=> (yawnFrames >= CONSECUTIVE_FRAMES)
  /\ (headStatus = "TURNED") <=> (headTurnedFrames >= CONSECUTIVE_FRAMES)
  /\ driverStatus # "STANDBY" =>
       /\ eyeStatus \in {"OPEN", "PARTIALLY_CLOSED", "CLOSED"}
       /\ yawnStatus \in {"NORMAL", "YAWNING"}
       /\ headStatus \in {"FORWARD", "TURNED"}

C6_Witness ==
  /\ headStatus = "TURNED"
  /\ headTurnedFrames = CONSECUTIVE_FRAMES
  /\ yawnStatus = "NORMAL"
  /\ yawnFrames = CONSECUTIVE_FRAMES - 1
  /\ eyeStatus = "PARTIALLY_CLOSED"

\* C7: a processed frame on which no signal qualifies (ear >= 0.22,
\* mar <= 0.6, 0.4 <= yawRatio <= 2.5) leaves every counter 0, the labels
\* OPEN, NORMAL and FORWARD, the alert set empty and the status SAFE.
Recovered ==
  /\ AllCountersZero
  /\ eyeStatus = "OPEN"
  /\ yawnStatus = "NORMAL"
  /\ headStatus = "FORWARD"
  /\ currentAlerts = {}
  /\ driverStatus = "SAFE"

C7_RecoveryImmediate ==
  hist.quiet => Recovered

C7_Witness ==
  /\ hist.quiet
  /\ hist.cleared
  /\ Recovered

\* C8: stopMonitoring, from any state, zeroes the four counters, empties the
\* alert set and clears isAlertPlaying, and a second stopMonitoring right
\* after it changes nothing.
C8_StopResetsIdempotent ==
  LET r == stopMonitoringOf(Cur)
  IN  /\ r.eyeClosedFrames = 0
      /\ r.eyePartiallyClosedFrames = 0
      /\ r.yawnFrames = 0
      /\ r.headTurnedFrames = 0
      /\ r.currentAlerts = {}
      /\ r.isAlertPlaying = FALSE
      /\ stopMonitoringOf(r) = r
      /\ hist.stops >= 1 => Cur = r

C8_Witness ==
  /\ hist.stops = 2
  /\ hist.afterAlarm
  /\ AllCountersZero
  /\ currentAlerts = {}
  /\ ~isAlertPlaying

\* C9 as stated: whenever leftDist = rightDist, both 0 included, the yaw
\* ratio returned is exactly 1.
C9_SymmetricIsOne_Original ==
  (headPose # NoPose /\ leftDistOf(landmarks) = rightDistOf(landmarks)) =>
    headPose.yawRatio[1] = headPose.yawRatio[2]

\* C9 amended: whenever leftDist = rightDist > 0 the yaw ratio returned is
\* exactly 1; when both are 0 it is 0.
C9_SymmetricNonzeroIsOne ==
  (headPose # NoPose /\ leftDistOf(landmarks) = rightDistOf(landmarks)) =>
    IF leftDistOf(landmarks) > 0
    THEN headPose.yawRatio[1] = headPose.yawRatio[2]
    ELSE headPose.yawRatio[1] = 0 /\ headPose.yawRatio[2] > 0

C9_Witness ==
  /\ headPose # NoPose
  /\ leftDistOf(landmarks) = 1
  /\ rightDistOf(landmarks) = 1
  /\ headPose.yawRatio = <<1, 1>>

\* C10: the yaw ratio returned is leftDist / max(rightDist, 0.001), so a
\* rightDist below 0.001 is replaced by 0.001.
C10_DenominatorFloored ==
  headPose # NoPose =>
    RatEq(headPose.yawRatio,
          <<leftDistOf(landmarks), Max(rightDistOf(landmarks), SAFE_RIGHT_DIST)>>)


\* C12: an alert kind is in currentAlerts only while the counter that owns
\* it is at least CONSECUTIVE_FRAMES: EYES CLOSED needs eyeClosedFrames,
\* EYES PARTIALLY CLOSED needs eyePartiallyClosedFrames, either yawn kind
\* needs yawnFrames and HEAD NOT FORWARD needs headTurnedFrames.
C12_AlertOnlyWhileCounterHigh ==
  /\ EYES_CLOSED \in currentAlerts => eyeClosedFrames >= CONSECUTIVE_FRAMES
  /\ EYES_PARTIALLY_CLOSED \in currentAlerts =>
       eyePartiallyClosedFrames >= CONSECUTIVE_FRAMES
  /\ YAWNING_DETECTED \in currentAlerts => yawnFrames >= CONSECUTIVE_FRAMES
  /\ EXCESSIVE_YAWNING \in currentAlerts => yawnFrames >= CONSECUTIVE_FRAMES
  /\ HEAD_NOT_FORWARD \in currentAlerts => headTurnedFrames >= CONSECUTIVE_FRAMES

\* C13: in every reachable state at most one of YAWNING DETECTED and
\* EXCESSIVE YAWNING is in currentAlerts.
C13_OneYawnKind ==
  ~({YAWNING_DETECTED, EXCESSIVE_YAWNING} \subseteq currentAlerts)

\* C14: every frame with a face takes exactly one branch of the eye ladder,
\* with strict comparisons: ear < 0.18 adds 1 to eyeClosedFrames and zeroes
\* eyePartiallyClosedFrames, 0.18 <= ear < 0.22 adds 1 to
\* eyePartiallyClosedFrames and zeroes eyeClosedFrames, ear >= 0.22 zeroes
\* both; so each counter is the length of the present streak of its own
\* branch, and 14 closed frames, one partial frame and 14 closed frames
\* never show CLOSED and end with eyeClosedFrames = 14.
C14_EyeLadder ==
  /\ eyeClosedFrames = hist.closedStreak
  /\ eyePartiallyClosedFrames = hist.partialStreak
  /\ hist.seq >= 1 => eyeStatus # "CLOSED" /\ EYES_CLOSED \notin currentAlerts
  /\ hist.seq = 2 * SeqClosed + 1 => eyeClosedFrames = SeqClosed

C14_Witness ==
  /\ hist.seq = 2 * SeqClosed + 1
  /\ eyeClosedFrames = SeqClosed
  /\ eyeStatus = "OPEN"

\* C15: between operations isAlertPlaying holds iff currentAlerts is
\* non-empty, and this stays so after any updateAlert call and after
\* stopMonitoring; an updateAlert call starts the alarm exactly when it
\* takes the set from empty to non-empty and stops it exactly when it takes
\* the set from non-empty to empty, so activating a kind that is already
\* active makes no call on alertSound; stopMonitoring pauses a playing alarm.
C15_PlayingIffAlerts ==
  /\ isAlertPlaying <=> currentAlerts # {}
  /\ \A type \in AlertTypes : \A isActive \in BOOLEAN :
       LET r == updateAlert(Cur, type, isActive)
       IN  /\ r.isAlertPlaying <=> r.currentAlerts # {}
           /\ r.alertSound = IF currentAlerts = {} /\ r.currentAlerts # {}
                             THEN <<"play">>
                             ELSE IF currentAlerts # {} /\ r.currentAlerts = {}
                                  THEN <<"pause">>
                                  ELSE << >>
  /\ LET r == stopMonitoringOf(Cur)
     IN  /\ ~r.isAlertPlaying
         /\ r.currentAlerts = {}
         /\ r.alertSound = IF isAlertPlaying THEN <<"pause">> ELSE << >>
  /\ (hist.closedRun /\ hist.n > CONSECUTIVE_FRAMES /\ hist.uses = 1) =>
       hist.sound = << >> /\ isAlertPlaying

C15_Witness ==
  /\ hist.closedRun
  /\ hist.n = CONSECUTIVE_FRAMES + 1
  /\ hist.uses = 1
  /\ hist.sound = << >>
  /\ isAlertPlaying
  /\ EYES_CLOSED \in currentAlerts

\* C18: a video frame goes through detection at most once: while
\* video.currentTime is the lastVideoTime no step raises a counter, however
\* many times predictWebcam is called.
C18_FrameProcessedOnce ==
  /\ [](hist.uses <= 1)
  /\ [][~newVideoTime =>
          /\ eyeClosedFrames' <= eyeClosedFrames
          /\ eyePartiallyClosedFrames' <= eyePartiallyClosedFrames
          /\ yawnFrames' <= yawnFrames
          /\ headTurnedFrames' <= headTurnedFrames]_vars

C18_Witness ==
  /\ ~newVideoTime
  /\ hist.uses = 1
  /\ eyeClosedFrames = 1
  /\ yawnFrames = 1
  /\ headTurnedFrames = 1

\* C19: a frame pauses alertSound only if it leaves currentAlerts empty; a
\* frame that leaves the set non-empty makes no pause, so an alarm playing
\* before and after the frame is not stopped and started again.
C19_AlarmNotInterrupted == ~hist.interrupted

\* C20: the eye, yawn and head sections are independent: each leaves the
\* counters and the alert kinds of the two others as they are, and the
\* value it gives its own counters depends on nothing but their prior
\* values and its own feature.
EyeKinds == {EYES_CLOSED, EYES_PARTIALLY_CLOSED}
YawnKinds == {YAWNING_DETECTED, EXCESSIVE_YAWNING}
HeadKinds == {HEAD_NOT_FORWARD}
Blank == stopMonitoringOf(Cur)

C20_SignalsIndependent ==
  /\ \A ear \in EarSamples :
       LET r == EyeStatusDetection(ear, Cur)
           own == EyeStatusDetection(ear,
                    [Blank EXCEPT !.eyeClosedFrames = eyeClosedFrames,
                                  !.eyePartiallyClosedFrames = eyePartiallyClosedFrames])
       IN  /\ r.yawnFrames = yawnFrames
           /\ r.headTurnedFrames = headTurnedFrames
           /\ r.currentAlerts \ EyeKinds = currentAlerts \ EyeKinds
           /\ r.eyeClosedFrames = own.eyeClosedFrames
           /\ r.eyePartiallyClosedFrames = own.eyePartiallyClosedFrames
  /\ \A mar \in MarSamples :
       LET r == YawningDetection(mar, Cur)
           own == YawningDetection(mar, [Blank EXCEPT !.yawnFrames = yawnFrames])
       IN  /\ r.eyeClosedFrames = eyeClosedFrames
           /\ r.eyePartiallyClosedFrames = eyePartiallyClosedFrames
           /\ r.headTurnedFrames = headTurnedFrames
           /\ r.currentAlerts \ YawnKinds = currentAlerts \ YawnKinds
           /\ r.yawnFrames = own.yawnFrames
  /\ \A lm \in HeadSamples :
       LET r == HeadPostureDetection(calculateHeadPose(lm), Cur)
           own == HeadPostureDetection(calculateHeadPose(lm),
                    [Blank EXCEPT !.headTurnedFrames = headTurnedFrames])
       IN  /\ r.eyeClosedFrames = eyeClosedFrames
           /\ r.eyePartiallyClosedFrames = eyePartiallyClosedFrames
           /\ r.yawnFrames = yawnFrames
           /\ r.currentAlerts \ HeadKinds = currentAlerts \ HeadKinds
           /\ r.headTurnedFrames = own.headTurnedFrames

C20_Witness ==
  /\ currentAlerts = {EYES_CLOSED, EXCESSIVE_YAWNING}
  /\ eyeClosedFrames >= CONSECUTIVE_FRAMES
  /\ yawnFrames >= CONSECUTIVE_FRAMES
  /\ headTurnedFrames = 0
  /\ headStatus = "FORWARD"
  /\ hist.uses = 1

C16_QuietAfterStop ==
  trace.stopped =>
    /\ trace.outcome # "processed"
    /\ AllCountersZero
    /\ currentAlerts = {}
    /\ ~isAlertPlaying

\* C17: at most one animation-frame callback is pending, and it is the one
\* animationFrameId names.
C17_SingleLoop == otherPending = 0

====
